---- MODULE Spec2Model ----
(***************************************************************************)
(* Model of mdfmvgmrip: the VGM command decoder (vgm.py), the YM2612       *)
(* register state machine (ym2612.py) and the instrument extractor and     *)
(* output driver (mdfmvgmrip.py).  The run without --debug is modelled     *)
(* (DEBUG = False): warnings and prints have no effect on the state.       *)
(* mdfmvgmrip.py hands the state machine a WriteCommand and reads          *)
(* result.notes / result.advance; ym2612.py names the same things          *)
(* cmd["reg"], cmd["val"], cmd["port"], result["notes"],                   *)
(* result["advance"].  The model identifies the two spellings.             *)
(***************************************************************************)
EXTENDS Integers, Sequences, FiniteSets, TLC

VARIABLES
  file_data,        \* the input file: header fields and command stream
  pos,              \* from_data's read position in the file (data.tell())
  i,                \* from_data's byte counter i
  vgm,              \* vgm.version and vgm._clock_rates
  commands,         \* vgm.commands
  dblock_data,      \* vgm.dblock_data: type -> bytes
  dblock_sections,  \* vgm.dblock_sections
  chunks,           \* the data-block chunks from_data has parsed, in file order
  pc,               \* where the run is
  raised,           \* the exception that ended the run, if any
  err_byte,         \* the byte offset a VGMError of the scan reports
  args,             \* the outputs the command line asks for
  ym,               \* the YM2612 instance of dump_fm_instruments
  instruments,      \* dump_fm_instruments' instruments
  samples,          \* dump_fm_instruments' i (elapsed samples)
  c,                \* dump_fm_instruments' c (command counter)
  k,                \* number of commands dump_fm_instruments has consumed
  result,           \* what the last handle_write_command returned
  files,            \* the artifact files written so far, in order
  scenario          \* the command sequence SpecNoteOn was started with

vars == <<file_data, pos, i, vgm, commands, dblock_data, dblock_sections,
          chunks, pc, raised, err_byte, args, ym, instruments, samples, c, k, result,
          files, scenario>>

decoderVars ==
  <<file_data, pos, i, vgm, dblock_data, dblock_sections, chunks, err_byte>>

extractorVars == <<ym, instruments, samples, c, k, result>>

(***************************************************************************)
(* Bounds of the model.                                                    *)
(***************************************************************************)
MaxCmds == 3        \* commands fed to the extractor in Spec
MaxSetupLen == 2    \* length of the setup sequence S in SpecNoteOn
MaxStream == 3      \* opcodes before the end of the stream in SpecDecode
MaxMainStream == 2  \* opcodes before the end of the stream in SpecMain
MaxRegs == 3        \* register writes fed to the extractor in SpecRegs

Channels == 0..5
Operators == 0..3
Byte == 0..255

(***************************************************************************)
(* Bit arithmetic on bytes and words.                                      *)
(***************************************************************************)
RECURSIVE BitOr(_, _)
BitOr(a, b) ==
  IF a = 0 THEN b
  ELSE IF b = 0 THEN a
  ELSE (IF a % 2 = 1 \/ b % 2 = 1 THEN 1 ELSE 0) + 2 * BitOr(a \div 2, b \div 2)

RECURSIVE BitAnd(_, _)
BitAnd(a, b) ==
  IF a = 0 \/ b = 0 THEN 0
  ELSE (IF a % 2 = 1 /\ b % 2 = 1 THEN 1 ELSE 0) + 2 * BitAnd(a \div 2, b \div 2)

(***************************************************************************)
(* vgm.py: the commands.                                                   *)
(***************************************************************************)
WriteCommand(chip, port, register, value) ==
  [kind |-> "Write", chip |-> chip, port |-> port, register |-> register,
   value |-> value, wait_time |-> -1, seek_address |-> -1]

WaitCommand(wait_time) ==
  [kind |-> "Wait", chip |-> "NONE", port |-> -1, register |-> -1,
   value |-> -1, wait_time |-> wait_time, seek_address |-> -1]

YM2612DatabankWriteCommand(wait_time) ==
  [kind |-> "DatabankWrite", chip |-> "NONE", port |-> -1, register |-> -1,
   value |-> -1, wait_time |-> wait_time, seek_address |-> -1]

YM2612DatabankSeekCommand(seek_address) ==
  [kind |-> "DatabankSeek", chip |-> "NONE", port |-> -1, register |-> -1,
   value |-> -1, wait_time |-> -1, seek_address |-> seek_address]

FMWrite(port, register, value) == WriteCommand("YM2612", port, register, value)

\* IsFMWrite without the chip test: every WriteCommand, PSG writes included
IsWriteCommand(cmd) == cmd.kind = "Write"

IsFMWrite(cmd) == cmd.kind = "Write" /\ cmd.chip = "YM2612"

(***************************************************************************)
(* ym2612.py: the lookup tables.                                           *)
(***************************************************************************)
get_channel_number_from_keyonoff_bits(chn) ==
  CASE chn = 0 -> 0
    [] chn = 1 -> 1
    [] chn = 2 -> 2
    [] chn = 4 -> 3
    [] chn = 5 -> 4
    [] chn = 6 -> 5
    [] chn = 7 -> 6
    [] OTHER -> 7

\* OperatorLookup with no gaps: the low nibbles 3, 7, 11, 15 resolve too
OperatorLookupNoGaps(reg) == <<reg % 4, reg \div 4>>

OperatorLookup(reg) ==
  CASE reg = 0 -> <<0, 0>>
    [] reg = 1 -> <<1, 0>>
    [] reg = 2 -> <<2, 0>>
    [] reg = 4 -> <<0, 1>>
    [] reg = 5 -> <<1, 1>>
    [] reg = 6 -> <<2, 1>>
    [] reg = 8 -> <<0, 2>>
    [] reg = 9 -> <<1, 2>>
    [] reg = 10 -> <<2, 2>>
    [] reg = 12 -> <<0, 3>>
    [] reg = 13 -> <<1, 3>>
    [] reg = 14 -> <<2, 3>>
    [] OTHER -> <<-1, -1>>

\* get_channel_and_operator_number_from_reg with the port left out of the
\* channel number
get_channel_and_operator_number_ignoring_port(port, reg) ==
  OperatorLookup(reg % 16)

\* the pair is 1-indexed here: [1] is the channel, [2] the operator
get_channel_and_operator_number_from_reg(port, reg) ==
  LET o == OperatorLookup(reg % 16)
  IN IF o = <<-1, -1>> THEN <<-1, -1>> ELSE <<o[1] + 3 * port, o[2]>>

(***************************************************************************)
(* ym2612.py: the chip state.                                              *)
(***************************************************************************)
YM2612Operator ==
  [detune |-> 0, multiplier |-> 0, level |-> 0, key_scaling |-> 0,
   amplitude_mod |-> FALSE, ssg_eg |-> 0,
   ch3_spmode_freq |-> 0, ch3_spmode_octave |-> 0,
   attack |-> 0, delay |-> 0, sustain |-> 0, sust_lvl |-> 0, release |-> 0]

YM2612Channel ==
  [operators |-> [o \in Operators |-> YM2612Operator],
   ch3_special_mode |-> FALSE, frequency |-> 0, octave |-> 0,
   algorithm |-> 0, op1_feedback |-> 0, pan |-> 0, ams |-> 0, fms |-> 0,
   key_on |-> FALSE]

YM2612 ==
  [channels |-> [ch \in Channels |-> YM2612Channel],
   lfo_freq |-> -1, dac_enable |-> FALSE, dac |-> 0]

NoNotes == [ch \in Channels |-> "n"]

\* a normal return of handle_write_command; chans and ops are the channel and
\* operator indices the step used to subscript self.channels and .operators
Return(y, notes, chans, ops) ==
  [ym |-> y, notes |-> notes, advance |-> 1, raised |-> "none",
   chans |-> chans, ops |-> ops]

\* handle_write_command left by an exception: no result, the state as it was
Raise(y, exc, chans, ops) ==
  [ym |-> y, notes |-> NoNotes, advance |-> 0, raised |-> exc,
   chans |-> chans, ops |-> ops]

(***************************************************************************)
(* ym2612.py: YM2612.handle_write_command, one operator per register       *)
(* branch.  y is the chip state (self), cmd the write.                     *)
(***************************************************************************)
\* KeyOnOff with the edge taken from the written level alone, the stored
\* key_on never compared
KeyOnOffLevel(y, cmd) ==
  LET channel == get_channel_number_from_keyonoff_bits(cmd.value % 8)
      key_on == (cmd.value \div 16) # 0
  IN IF channel = 6 THEN Return(y, NoNotes, {}, {})
     ELSE IF channel \notin Channels
          THEN Raise(y, "IndexError", {channel}, {})
          ELSE Return([y EXCEPT !.channels[channel].key_on = key_on],
                      [NoNotes EXCEPT ![channel] = IF key_on THEN "d" ELSE "u"],
                      {channel}, {})

\* KeyOnOff that reports the edge and leaves the stored key_on as it was
KeyOnOffNoStore(y, cmd) ==
  LET channel == get_channel_number_from_keyonoff_bits(cmd.value % 8)
      key_on == (cmd.value \div 16) # 0
  IN IF channel = 6 THEN Return(y, NoNotes, {}, {})
     ELSE IF channel \notin Channels
          THEN Raise(y, "IndexError", {channel}, {})
          ELSE Return(y,
                      IF y.channels[channel].key_on # key_on
                      THEN [NoNotes EXCEPT ![channel] =
                              IF key_on THEN "d" ELSE "u"]
                      ELSE NoNotes,
                      {channel}, {})

\* reg 0x28: key on/off
KeyOnOff(y, cmd) ==
  LET channel == get_channel_number_from_keyonoff_bits(cmd.value % 8)
      operators == cmd.value \div 16
      key_on == operators # 0
  IN IF channel = 6 THEN Return(y, NoNotes, {}, {})
     ELSE IF channel \notin Channels
          THEN Raise(y, "IndexError", {channel}, {})
          ELSE LET prev_key_on == y.channels[channel].key_on
                   notes == IF prev_key_on # key_on
                            THEN [NoNotes EXCEPT ![channel] =
                                    IF key_on THEN "d" ELSE "u"]
                            ELSE NoNotes
               IN Return([y EXCEPT !.channels[channel].key_on = key_on],
                         notes, {channel}, {})

\* reg 0x22: LFO control
LfoControl(y, cmd) ==
  Return([y EXCEPT !.lfo_freq = IF (cmd.value \div 8) % 2 = 1
                                THEN cmd.value % 8 ELSE -1],
         NoNotes, {}, {})

\* reg 0x27: timer control and channel 3 special mode
TimerControl(y, cmd) ==
  Return([y EXCEPT !.channels[2].ch3_special_mode = (cmd.value \div 64 = 1)],
         NoNotes, {2}, {})

\* reg 0x2B: DAC enable
DacEnable(y, cmd) ==
  Return([y EXCEPT !.dac_enable = (cmd.value >= 128)], NoNotes, {}, {})

\* reg 0x2A: DAC value (a warning when the DAC is disabled, nothing stored)
DacValue(y, cmd) == Return(y, NoNotes, {}, {})

\* the fields an operator register range 0x30..0x9F writes
OperatorFields(o, reg, val) ==
  CASE reg \in 16*3 .. 16*3 + 15 ->
         [o EXCEPT !.detune = (val \div 16) % 8, !.multiplier = val % 16]
    [] reg \in 16*4 .. 16*4 + 15 ->
         [o EXCEPT !.level = val % 128]
    [] reg \in 16*5 .. 16*5 + 15 ->
         [o EXCEPT !.key_scaling = val \div 64, !.attack = val % 32]
    [] reg \in 16*6 .. 16*6 + 15 ->
         [o EXCEPT !.amplitude_mod = (val >= 128), !.delay = val % 32]
    [] reg \in 16*7 .. 16*7 + 15 ->
         [o EXCEPT !.sustain = val % 32]
    [] reg \in 16*8 .. 16*8 + 15 ->
         [o EXCEPT !.sust_lvl = BitOr(val \div 16, 16),
                   !.release = BitOr(val % 16, 16)]
    [] reg \in 16*9 .. 16*9 + 15 ->
         [o EXCEPT !.ssg_eg = val % 16]

\* reg 0x30..0x9F: operator registers
OperatorWrite(y, cmd) ==
  LET co == get_channel_and_operator_number_from_reg(cmd.port, cmd.register)
      channel == co[1]
      operator == co[2]
  IN IF channel = -1
     THEN IF cmd.register \in \h70 .. \h7F
          THEN Raise(y, "YM2612Error", {}, {})
          ELSE Return(y, NoNotes, {}, {})
     ELSE IF channel \notin Channels \/ operator \notin Operators
          THEN Raise(y, "IndexError", {channel}, {operator})
          ELSE Return([y EXCEPT !.channels[channel].operators[operator] =
                                  OperatorFields(@, cmd.register, cmd.value)],
                      NoNotes, {channel}, {operator})

\* (old & 0xFF00) | val
SetLow(old, val) == BitOr(BitAnd(old, \hFF00), val)

\* (old & 0xFF) | (val & 0x07)
SetHigh(old, val) == BitOr(BitAnd(old, \hFF), BitAnd(val, 7))

\* reg 0xA0..0xA2: channel frequency LSB
FreqLsb(y, cmd) ==
  LET channel == cmd.register - \hA0 + 3 * cmd.port
  IN IF (channel = 2 \/ channel = 5) /\ y.channels[2].ch3_special_mode
     THEN Return([y EXCEPT !.channels[2].operators[0].ch3_spmode_freq =
                             SetLow(@, cmd.value)],
                 NoNotes, {2}, {0})
     ELSE IF channel \notin Channels
          THEN Raise(y, "IndexError", {channel}, {})
          ELSE Return([y EXCEPT !.channels[channel].frequency =
                                  SetLow(@, cmd.value)],
                      NoNotes, {channel} \cup (IF channel = 5 THEN {2} ELSE {}), {})

\* reg 0xA4..0xA6: channel frequency MSB and octave
FreqMsb(y, cmd) ==
  LET channel == cmd.register - \hA4 + 3 * cmd.port
  IN IF (channel = 2 \/ channel = 5) /\ y.channels[2].ch3_special_mode
     THEN Return([y EXCEPT !.channels[2].operators[0].ch3_spmode_freq =
                             SetHigh(@, cmd.value),
                           !.channels[2].operators[0].ch3_spmode_octave =
                             (cmd.value \div 8) % 8],
                 NoNotes, {2}, {0})
     ELSE IF channel \notin Channels
          THEN Raise(y, "IndexError", {channel}, {})
          ELSE Return([y EXCEPT !.channels[channel].frequency =
                                  SetHigh(@, cmd.value),
                                !.channels[channel].octave =
                                  (cmd.value \div 8) % 8],
                      NoNotes, {channel} \cup (IF channel = 5 THEN {2} ELSE {}), {})

\* Ch3Operator off by one: 0xA8 taken for operator index 0
Ch3OperatorFromA8(reg) == reg - \hA8

\* the operator a channel 3 special mode frequency register addresses
Ch3Operator(reg) == reg - \hA7

\* Ch3FreqLsb with the special-mode test left out
Ch3FreqLsbAlways(y, cmd) ==
  Return([y EXCEPT !.channels[2].operators[Ch3Operator(cmd.register)]
                     .ch3_spmode_freq = SetLow(@, cmd.value)],
         NoNotes, {2}, {Ch3Operator(cmd.register)})

\* reg 0xA8..0xAA: channel 3 special mode, operator frequency LSB
Ch3FreqLsb(y, cmd) ==
  IF y.channels[2].ch3_special_mode
  THEN LET operator == Ch3Operator(cmd.register)
       IN IF operator \notin Operators
          THEN Raise(y, "IndexError", {2}, {operator})
          ELSE Return([y EXCEPT !.channels[2].operators[operator].ch3_spmode_freq =
                                  SetLow(@, cmd.value)],
                      NoNotes, {2}, {operator})
  ELSE Return(y, NoNotes, {2}, {})

\* reg 0xAC..0xAE: channel 3 special mode, operator frequency MSB and octave
Ch3FreqMsb(y, cmd) ==
  IF y.channels[2].ch3_special_mode
  THEN LET operator == Ch3Operator(cmd.register)
       IN IF operator \notin Operators
          THEN Raise(y, "IndexError", {2}, {0, operator})
          ELSE Return([y EXCEPT !.channels[2].operators[operator].ch3_spmode_freq =
                                  SetHigh(y.channels[2].operators[0].ch3_spmode_freq,
                                          cmd.value),
                                !.channels[2].operators[operator].ch3_spmode_octave =
                                  (cmd.value \div 8) % 8],
                      NoNotes, {2}, {0, operator})
  ELSE Return(y, NoNotes, {2}, {})

\* reg 0xA0..0xAF: frequency registers
Frequency(y, cmd) ==
  CASE cmd.register \in \hA0 .. \hA2 -> FreqLsb(y, cmd)
    [] cmd.register \in \hA4 .. \hA6 -> FreqMsb(y, cmd)
    [] cmd.register \in \hA8 .. \hAA -> Ch3FreqLsb(y, cmd)
    [] cmd.register \in \hAC .. \hAE -> Ch3FreqMsb(y, cmd)
    [] OTHER -> Raise(y, "YM2612Error", {}, {})

\* reg 0xB0..0xB3: feedback and algorithm
FeedbackAlgorithm(y, cmd) ==
  LET channel == cmd.register - \hB0 + 3 * cmd.port
  IN IF channel \notin Channels
     THEN Raise(y, "IndexError", {channel}, {})
     ELSE Return([y EXCEPT !.channels[channel].algorithm = cmd.value % 8,
                           !.channels[channel].op1_feedback = (cmd.value \div 8) % 8],
                 NoNotes, {channel}, {})

\* reg 0xB4..0xB6: stereo and LFO sensitivity
StereoLfo(y, cmd) ==
  LET channel == cmd.register - \hB4 + 3 * cmd.port
  IN IF channel \notin Channels
     THEN Raise(y, "IndexError", {channel}, {})
     ELSE Return([y EXCEPT !.channels[channel].pan = (cmd.value \div 64) % 4,
                           !.channels[channel].ams = (cmd.value \div 8) % 8,
                           !.channels[channel].fms = BitAnd(cmd.value, 2)],
                 NoNotes, {channel}, {})

handle_write_command(y, cmd) ==
  CASE cmd.register = \h28 -> KeyOnOff(y, cmd)
    [] cmd.register = \h22 -> LfoControl(y, cmd)
    [] cmd.register = \h27 -> TimerControl(y, cmd)
    [] cmd.register \in \h24 .. \h26 -> Return(y, NoNotes, {}, {})
    [] cmd.register = \h2B -> DacEnable(y, cmd)
    [] cmd.register = \h2A -> DacValue(y, cmd)
    [] cmd.register \in \h30 .. \h9F -> OperatorWrite(y, cmd)
    [] cmd.register \in \hA0 .. \hAF -> Frequency(y, cmd)
    [] cmd.register \in \hB0 .. \hB3 -> FeedbackAlgorithm(y, cmd)
    [] cmd.register \in \hB4 .. \hB6 -> StereoLfo(y, cmd)
    [] OTHER -> Return(y, NoNotes, {}, {})

(***************************************************************************)
(* ym2612.py: instruments.                                                 *)
(***************************************************************************)
\* OperatorCompare with the detune comparison left out
OperatorCompareNoDetune(a, b) ==
  /\ a.multiplier = b.multiplier
  /\ a.level = b.level
  /\ a.key_scaling = b.key_scaling
  /\ a.amplitude_mod = b.amplitude_mod
  /\ a.ssg_eg = b.ssg_eg
  /\ a.attack = b.attack
  /\ a.delay = b.delay
  /\ a.sustain = b.sustain
  /\ a.sust_lvl = b.sust_lvl
  /\ a.release = b.release

OperatorCompare(a, b) ==
  /\ a.detune = b.detune
  /\ a.multiplier = b.multiplier
  /\ a.level = b.level
  /\ a.key_scaling = b.key_scaling
  /\ a.amplitude_mod = b.amplitude_mod
  /\ a.ssg_eg = b.ssg_eg
  /\ a.attack = b.attack
  /\ a.delay = b.delay
  /\ a.sustain = b.sustain
  /\ a.sust_lvl = b.sust_lvl
  /\ a.release = b.release

InstrumentCompare(a, b) ==
  LET ops_are_equal ==
        \A o \in Operators : OperatorCompare(a.operators[o], b.operators[o])
  IN /\ a.algorithm = b.algorithm
     /\ a.lfo_freq = b.lfo_freq
     /\ a.op1_feedback = b.op1_feedback
     /\ a.pan = b.pan
     /\ a.ams = b.ams
     /\ a.fms = b.fms
     /\ ops_are_equal

\* from_channel without the copy of the operators: the instrument keeps the
\* operators YM2612Instrument.__init__ gave it
from_channelFreshOperators(channel, lfo_freq) ==
  [lfo_freq |-> lfo_freq, operators |-> [o \in Operators |-> YM2612Operator],
   algorithm |-> channel.algorithm, op1_feedback |-> channel.op1_feedback,
   pan |-> channel.pan, ams |-> channel.ams, fms |-> channel.fms,
   all_uses |-> <<>>]

\* YM2612Instrument.from_channel; all_uses is metadata["all_uses"]
from_channel(channel, lfo_freq) ==
  [lfo_freq |-> lfo_freq, operators |-> channel.operators,
   algorithm |-> channel.algorithm, op1_feedback |-> channel.op1_feedback,
   pan |-> channel.pan, ams |-> channel.ams, fms |-> channel.fms,
   all_uses |-> <<>>]

\* YM2612Operator.serialize; multiplier is max(multiplier, 0.5), kept here in
\* halves (1 stands for 0.5)
OperatorSerialize(o) ==
  [detune |-> o.detune,
   multiplier_halves |-> IF o.multiplier = 0 THEN 1 ELSE 2 * o.multiplier,
   level |-> o.level, key_scaling |-> o.key_scaling,
   amplitude_mod |-> o.amplitude_mod, ssg_eg |-> o.ssg_eg,
   a |-> o.attack, d |-> o.delay, s |-> o.sustain,
   s_lvl |-> BitAnd(o.sust_lvl, 15), r |-> BitAnd(o.release, 15),
   freq |-> o.ch3_spmode_freq, octave |-> o.ch3_spmode_octave]

\* YM2612Instrument.serialize; lfo -1 stands for None
InstrumentSerialize(inst) ==
  [operators |-> [o \in Operators |-> OperatorSerialize(inst.operators[o])],
   lfo |-> inst.lfo_freq, algorithm |-> inst.algorithm,
   op1_feedback |-> inst.op1_feedback,
   pan_l |-> (BitAnd(inst.pan, 2) = 2), pan_r |-> (BitAnd(inst.pan, 1) = 1),
   ams |-> inst.ams, fms |-> inst.fms, metadata |-> inst.all_uses]

(***************************************************************************)
(* mdfmvgmrip.py: dump_fm_instruments.                                     *)
(***************************************************************************)
\* KeyOnOps with the four bits in the opposite order
KeyOnOpsReversed(cmd) ==
  IF cmd.register = \h28
  THEN <<(cmd.value \div 16) % 2 = 1, (cmd.value \div 32) % 2 = 1,
         (cmd.value \div 64) % 2 = 1, cmd.value >= 128>>
  ELSE <<>>

\* key_on_ops of a usage record; <<>> stands for None
KeyOnOps(cmd) ==
  IF cmd.register = \h28
  THEN <<cmd.value >= 128, (cmd.value \div 64) % 2 = 1,
         (cmd.value \div 32) % 2 = 1, (cmd.value \div 16) % 2 = 1>>
  ELSE <<>>

\* FindInstrument that finds nothing: every note-on opens a new entry
FindInstrumentNone(inst, insts) == 0

\* FindInstrument with the scan started at the second entry
FindInstrumentFromSecond(inst, insts) ==
  LET hits == {j \in 2..Len(insts) : InstrumentCompare(inst, insts[j])}
  IN IF hits = {} THEN 0 ELSE CHOOSE j \in hits : \A h \in hits : j <= h

\* the index of the first instrument equal to inst, 0 when there is none
\* (the code's idx is 0-based with -1 for none)
FindInstrument(inst, insts) ==
  LET hits == {j \in 1..Len(insts) : InstrumentCompare(inst, insts[j])}
  IN IF hits = {} THEN 0 ELSE CHOOSE j \in hits : \A h \in hits : j <= h

\* CaptureInstrument with a new instrument put at the front of the list
CaptureInstrumentPrepend(insts, y, cmd, channel, at_command, at_sample) ==
  LET inst == from_channel(y.channels[channel], y.lfo_freq)
      idx == FindInstrument(inst, insts)
      use == [at_command |-> at_command, at_sample |-> at_sample,
              key_on_ops |-> KeyOnOps(cmd)]
  IN IF idx = 0
     THEN <<[inst EXCEPT !.all_uses = <<use>>]>> \o insts
     ELSE [insts EXCEPT ![idx].all_uses = Append(@, use)]

\* the body of "if result.notes[channel] == 'd'"
CaptureInstrument(insts, y, cmd, channel, at_command, at_sample) ==
  LET inst == from_channel(y.channels[channel], y.lfo_freq)
      idx == FindInstrument(inst, insts)
      use == [at_command |-> at_command, at_sample |-> at_sample,
              key_on_ops |-> KeyOnOps(cmd)]
  IN IF idx = 0
     THEN Append(insts, [inst EXCEPT !.all_uses = <<use>>])
     ELSE [insts EXCEPT ![idx].all_uses = Append(@, use)]

\* "for channel in range(6)" from channel on
RECURSIVE CaptureFrom(_, _, _, _, _, _, _)
CaptureFrom(insts, y, cmd, notes, channel, at_command, at_sample) ==
  IF channel > 5 THEN insts
  ELSE CaptureFrom(IF notes[channel] = "d"
                   THEN CaptureInstrument(insts, y, cmd, channel,
                                          at_command, at_sample)
                   ELSE insts,
                   y, cmd, notes, channel + 1, at_command, at_sample)

\* the sample counter after a command that is not an FM write
SamplesAfterOther(old, cmd) == old

\* AfterRaise with the exception swallowed: the loop goes on
AfterRaiseContinue == "extract"

\* where the run is after handle_write_command raised: main's except
\* clauses end the run (argparser.error), an uncaught exception does too
AfterRaise == "failed"

\* one iteration of "for cmd in vgm.commands"
LoopBody(cmd) ==
  /\ k' = k + 1
  /\ IF IsFMWrite(cmd)
     THEN LET r == handle_write_command(ym, cmd)
          IN /\ result' = r
             /\ ym' = r.ym
             /\ IF r.raised # "none"
                THEN /\ pc' = AfterRaise
                     /\ raised' = r.raised
                     /\ UNCHANGED <<instruments, samples, c>>
                ELSE /\ instruments' = CaptureFrom(instruments, r.ym, cmd,
                                                   r.notes, 0, c, samples)
                     /\ samples' = samples + r.advance
                     /\ c' = c + 1
                     /\ UNCHANGED <<pc, raised>>
     ELSE /\ samples' = SamplesAfterOther(samples, cmd)
          /\ result' = Return(ym, NoNotes, {}, {})
          /\ UNCHANGED <<ym, instruments, c, pc, raised>>

\* the files dump_fm_instruments writes after its loop
InstrumentFiles(insts) ==
  [j \in 1..Len(insts) |->
     [name |-> <<"INST", j - 1>>, content |-> InstrumentSerialize(insts[j])]]

(***************************************************************************)
(* Spec: dump_fm_instruments over every command sequence of up to MaxCmds  *)
(* commands drawn from CommandAlphabet.                                    *)
(***************************************************************************)
KeyWrites ==
  {FMWrite(0, \h28, v) : v \in {\hF0, \h00, \h10, \hF2, \h02, \hF3, \hF7}}

SetupWrites ==
  {FMWrite(0, \h30, \h10), FMWrite(0, \h30, \h22), FMWrite(1, \hB0, \h0A),
   FMWrite(0, \hA2, \h34)}

ModeWrites ==
  {FMWrite(0, \h27, \h40), FMWrite(0, \h27, \h00), FMWrite(0, \hA8, \h56),
   FMWrite(0, \hAC, \h01), FMWrite(1, \hB3, \h0A)}

OtherCommands ==
  {WaitCommand(735), WaitCommand(882), WaitCommand(2),
   YM2612DatabankWriteCommand(3), YM2612DatabankSeekCommand(0),
   WriteCommand("SEGA_PSG", -1, -1, \h9F)}

CommandAlphabet == KeyWrites \cup SetupWrites \cup ModeWrites \cup OtherCommands

\* no input file: Spec and SpecNoteOn start from vgm.commands
NoFile ==
  [ident_ok |-> TRUE, version |-> \h150, data_offset |-> \h0C,
   clock_2c |-> 7670453, clock_30 |-> 0, clock_28 |-> 3579545,
   stream_at |-> \h40, stream |-> <<>>]

NoResult == Return(YM2612, NoNotes, {}, {})

NoScenario ==
  [setup |-> <<>>, channel |-> 0, mask1 |-> 0, mask2 |-> 0, key_off |-> FALSE]

InitExtractor ==
  /\ ym = YM2612
  /\ instruments = <<>>
  /\ samples = 0
  /\ c = 0
  /\ k = 0
  /\ result = NoResult

InitDecoder ==
  /\ pos = 0
  /\ i = 0
  /\ vgm = [version |-> -1, ym_clock |-> 0, psg_clock |-> 0]
  /\ dblock_data = <<>>
  /\ dblock_sections = <<>>
  /\ chunks = <<>>
  /\ err_byte = -1

Init ==
  /\ file_data = NoFile
  /\ InitDecoder
  /\ commands = <<>>
  /\ args = [data_out |-> FALSE, fm_inst_out |-> TRUE]
  /\ pc = "extract"
  /\ raised = "none"
  /\ files = <<>>
  /\ scenario = NoScenario
  /\ InitExtractor

\* the loop takes the next command of vgm.commands
NextCommand ==
  /\ pc = "extract"
  /\ Len(commands) < MaxCmds
  /\ \E cmd \in CommandAlphabet :
       /\ commands' = Append(commands, cmd)
       /\ LoopBody(cmd)
  /\ UNCHANGED <<decoderVars, args, files, scenario>>

\* vgm.commands is exhausted: the instruments are written
EndOfCommands ==
  /\ pc = "extract"
  /\ k = Len(commands)
  /\ files' = files \o InstrumentFiles(instruments)
  /\ pc' = "done"
  /\ UNCHANGED <<decoderVars, extractorVars, commands, args, raised, scenario>>

Next == NextCommand \/ EndOfCommands

Spec == Init /\ [][Next]_vars

(***************************************************************************)
(* SpecNoteOn: dump_fm_instruments over the command sequences                *)
(*   S, key-on(ch), [key-off(ch),] S, key-on(ch)                           *)
(* for every setup sequence S of up to MaxSetupLen writes to operator and  *)
(* channel registers, every channel ch and key-on operator masks m1, m2.   *)
(***************************************************************************)
\* writes that program operator registers (0x30-0x9F, mapped) and channel
\* registers (0xB0-0xB2, 0xB4-0xB6)
ChannelSetupWrites ==
  {FMWrite(0, \h30, \h10), FMWrite(0, \h30, \h22), FMWrite(0, \h44, \h7F),
   FMWrite(1, \h52, \h1F), FMWrite(1, \h69, \h9F), FMWrite(0, \h71, \h05),
   FMWrite(0, \h8E, \h00), FMWrite(0, \h9C, \h0F),
   FMWrite(0, \hB0, \h3A), FMWrite(1, \hB2, \h07), FMWrite(0, \hB4, \hC1)}

RECURSIVE SeqsUpTo(_, _)
SeqsUpTo(S, n) ==
  IF n = 0 THEN {<<>>}
  ELSE LET shorter == SeqsUpTo(S, n - 1)
       IN shorter \cup {Append(s, x) : s \in shorter, x \in S}

\* the low three bits that select channel ch in a key on/off value
KeyBits(ch) == IF ch < 3 THEN ch ELSE ch + 1

KeyOn(ch, mask) == FMWrite(0, \h28, mask * 16 + KeyBits(ch))
KeyOff(ch) == FMWrite(0, \h28, KeyBits(ch))

ScenarioCommands(sc) ==
  sc.setup \o <<KeyOn(sc.channel, sc.mask1)>>
    \o (IF sc.key_off THEN <<KeyOff(sc.channel)>> ELSE <<>>)
    \o sc.setup \o <<KeyOn(sc.channel, sc.mask2)>>

InitNoteOn ==
  /\ file_data = NoFile
  /\ InitDecoder
  /\ \E S \in SeqsUpTo(ChannelSetupWrites, MaxSetupLen) :
     \E ch \in Channels : \E m1, m2 \in {1, 15} : \E off \in BOOLEAN :
       scenario = [setup |-> S, channel |-> ch, mask1 |-> m1, mask2 |-> m2,
                   key_off |-> off]
  /\ commands = ScenarioCommands(scenario)
  /\ args = [data_out |-> FALSE, fm_inst_out |-> TRUE]
  /\ pc = "extract"
  /\ raised = "none"
  /\ files = <<>>
  /\ InitExtractor

\* one iteration of "for cmd in vgm.commands" over the decoded commands
ExtractStep ==
  /\ pc = "extract"
  /\ k < Len(commands)
  /\ LoopBody(commands[k + 1])
  /\ UNCHANGED <<decoderVars, commands, args, files, scenario>>

NextNoteOn == ExtractStep \/ EndOfCommands

SpecNoteOn == InitNoteOn /\ [][NextNoteOn]_vars

(***************************************************************************)
(* SpecRegs: dump_fm_instruments over every sequence of up to MaxRegs      *)
(* register writes drawn from RegisterWrites: operator registers that      *)
(* resolve to no operator, the DAC, the channel 3 special mode registers,  *)
(* the frequency registers, the LFO and key on/off.                        *)
(***************************************************************************)
\* operator registers whose low nibble is 3, 7, 11 or 15
UnmappedWrites ==
  {FMWrite(0, \h33, \h15), FMWrite(1, \h6B, \h9F), FMWrite(0, \h73, \h05),
   FMWrite(1, \h7F, \h11), FMWrite(0, \h8F, \h22)}

DacWrites == {FMWrite(0, \h2B, \h80), FMWrite(0, \h2A, \h55)}

SpecialModeWrites ==
  {FMWrite(0, \h27, \h40), FMWrite(0, \hA9, \h56), FMWrite(0, \hAD, \h0B)}

FrequencyWrites ==
  {FMWrite(0, \hA0, \h34), FMWrite(0, \hA4, \h0B), FMWrite(1, \hA2, \h81),
   FMWrite(1, \hA6, \h25)}

VoiceWrites ==
  {FMWrite(0, \h30, \h22), FMWrite(0, \h70, \h05), FMWrite(0, \h22, \h0B),
   FMWrite(0, \h81, \h00), FMWrite(0, \h28, \hF0), FMWrite(0, \h28, \h00),
   FMWrite(0, \h28, \hF1)}

RegisterWrites ==
  UnmappedWrites \cup DacWrites \cup SpecialModeWrites \cup FrequencyWrites
    \cup VoiceWrites

\* the loop takes the next command of vgm.commands, a register write
NextRegisterWrite ==
  /\ pc = "extract"
  /\ Len(commands) < MaxRegs
  /\ \E cmd \in RegisterWrites :
       /\ commands' = Append(commands, cmd)
       /\ LoopBody(cmd)
  /\ UNCHANGED <<decoderVars, args, files, scenario>>

NextRegs == NextRegisterWrite \/ EndOfCommands

SpecRegs == Init /\ [][NextRegs]_vars

(***************************************************************************)
(* vgm.py: VGM.from_data.  The file is its header fields and the bytes of  *)
(* its command stream, which lie at stream_at; the header is complete      *)
(* (the file is at least 0x38 bytes long).                                 *)
(***************************************************************************)
FileSize(f) == f.stream_at + Len(f.stream)

\* byte n (0..3) of the little-endian u32 v
U32Byte(v, n) ==
  CASE n = 0 -> v % 256
    [] n = 1 -> (v \div 256) % 256
    [] n = 2 -> (v \div 65536) % 256
    [] n = 3 -> (v \div 16777216) % 256

\* the byte of the file at absolute offset p < FileSize(f)
ByteAt(f, p) ==
  CASE p >= f.stream_at -> f.stream[p - f.stream_at + 1]
    [] p \in \h08 .. \h0B -> U32Byte(f.version, p - \h08)
    [] p \in \h28 .. \h2B -> U32Byte(f.clock_28, p - \h28)
    [] p \in \h2C .. \h2F -> U32Byte(f.clock_2c, p - \h2C)
    [] p \in \h30 .. \h33 -> U32Byte(f.clock_30, p - \h30)
    [] p \in \h34 .. \h37 -> U32Byte(f.data_offset, p - \h34)
    [] OTHER -> 0

\* data.read(n) at position p: up to n bytes, fewer at the end of the file
Read(f, p, n) ==
  LET m == IF p + n <= FileSize(f) THEN n
           ELSE IF p >= FileSize(f) THEN 0 ELSE FileSize(f) - p
  IN [j \in 1..m |-> ByteAt(f, p + j - 1)]

\* UnpackH read big-endian
UnpackHBigEndian(b) == 256 * b[1] + b[2]

\* struct.unpack("<H", b) and struct.unpack("<I", b)
UnpackH(b) == b[1] + 256 * b[2]
UnpackI(b) == b[1] + 256 * b[2] + 65536 * b[3] + 16777216 * b[4]

\* the end of from_data by an exception
Fail(exc) ==
  /\ pc' = "failed"
  /\ raised' = exc

\* StreamStart with older files scanned from the absolute offset 0x0C
StreamStartFixed(f) ==
  IF f.version >= \h150 THEN \h34 + f.data_offset ELSE \h0C

\* where the scan starts: data.seek(0x34 + data_offset), data_offset being
\* 0x0C unless the version is 1.50 or later and the header field is read
StreamStart(f) ==
  LET data_offset == IF f.version >= \h150 THEN f.data_offset ELSE \h0C
  IN \h34 + data_offset

\* from_data up to the loop: ident, version, clock rates, data offset
ReadHeader ==
  /\ pc = "header"
  /\ IF ~file_data.ident_ok
     THEN /\ Fail("VGMError: ident")
          /\ pos' = 4
          /\ UNCHANGED <<i, vgm>>
     ELSE LET version == file_data.version
              ym_clock == IF file_data.clock_2c > 5000000 /\ version <= \h101
                          THEN file_data.clock_30 ELSE file_data.clock_2c
          IN /\ vgm' = [version |-> version, ym_clock |-> ym_clock,
                        psg_clock |-> file_data.clock_28]
             /\ pos' = StreamStart(file_data)
             /\ i' = StreamStart(file_data) - 1
             /\ pc' = "scan"
             /\ UNCHANGED raised
  /\ UNCHANGED <<file_data, dblock_data, dblock_sections, chunks, err_byte,
                 commands, args, extractorVars, files, scenario>>

\* the opcode the loop reads next, -1 at the end of the file
Opcode == IF pos < FileSize(file_data) THEN ByteAt(file_data, pos) ELSE -1

\* what a scan step leaves alone besides the decoder's own variables
ScanFrame == UNCHANGED <<file_data, vgm, args, extractorVars, files, scenario>>

\* data.read(1)[0] at the end of the file
ScanEof ==
  /\ pc = "scan"
  /\ Opcode = -1
  /\ i' = i + 1
  /\ Fail("IndexError")
  /\ UNCHANGED <<pos, commands, dblock_data, dblock_sections, chunks, err_byte>>
  /\ ScanFrame

\* 0x66: end of the stream
ScanEnd ==
  /\ pc = "scan"
  /\ Opcode = \h66
  /\ i' = i + 1
  /\ pos' = pos + 1
  /\ pc' = "decoded"
  /\ UNCHANGED <<raised, commands, dblock_data, dblock_sections, chunks, err_byte>>
  /\ ScanFrame

\* parse_data_block at position p (after the opcode): the reserved byte, the
\* type, the size, the data
parse_data_block(f, p) ==
  LET type == Read(f, p + 1, 1)
      size == Read(f, p + 2, 4)
  IN IF Len(type) < 1 THEN [raised |-> "IndexError"]
     ELSE IF Len(size) < 4 THEN [raised |-> "struct.error"]
     ELSE [raised |-> "none", type |-> type[1],
           data |-> Read(f, p + 6, UnpackI(size))]

\* the section from_data records for a chunk
NewSection(dbd, chunk_data) ==
  [start |-> Cardinality(DOMAIN dbd),
   end |-> Cardinality(DOMAIN dbd) + Len(chunk_data)]

\* vgm.dblock_data after a chunk
AddBlock(dbd, type, chunk_data) ==
  [t \in DOMAIN dbd \cup {type} |->
     IF t = type
     THEN (IF type \in DOMAIN dbd THEN dbd[type] \o chunk_data ELSE chunk_data)
     ELSE dbd[t]]

\* 0x67: data block
ScanDataBlock ==
  /\ pc = "scan"
  /\ Opcode = \h67
  /\ LET data_block == parse_data_block(file_data, pos + 1)
     IN IF data_block.raised # "none"
        THEN /\ Fail(data_block.raised)
             /\ i' = i + 1
             /\ pos' = FileSize(file_data)
             /\ UNCHANGED <<dblock_data, dblock_sections, chunks>>
        ELSE /\ dblock_sections' =
                  Append(dblock_sections, NewSection(dblock_data, data_block.data))
             /\ dblock_data' = AddBlock(dblock_data, data_block.type, data_block.data)
             /\ chunks' = Append(chunks, [type |-> data_block.type,
                                          data |-> data_block.data])
             /\ i' = i + 1 + 2 + 4 + Len(data_block.data)
             /\ pos' = pos + 1 + 2 + 4 + Len(data_block.data)
             /\ UNCHANGED <<pc, raised>>
  /\ UNCHANGED <<commands, err_byte>>
  /\ ScanFrame

\* 0x68 and 0x90-0x95: unimplemented
ScanStub ==
  /\ pc = "scan"
  /\ Opcode = \h68 \/ Opcode \in \h90 .. \h95
  /\ i' = i + 1
  /\ pos' = pos + 1
  /\ err_byte' = i + 1
  /\ Fail("VGMError: unimplemented")
  /\ UNCHANGED <<commands, dblock_data, dblock_sections, chunks>>
  /\ ScanFrame

\* 0x80-0x8F: YM2612 port 0 address 2A write from the data bank, then wait
ScanDatabankWrite ==
  /\ pc = "scan"
  /\ Opcode \in \h80 .. \h8F
  /\ i' = i + 1
  /\ pos' = pos + 1
  /\ commands' = Append(commands, YM2612DatabankWriteCommand(Opcode - \h80))
  /\ UNCHANGED <<pc, raised, dblock_data, dblock_sections, chunks, err_byte>>
  /\ ScanFrame

\* 0x52, 0x53: YM2612 write
ScanYMWrite ==
  /\ pc = "scan"
  /\ Opcode \in {\h52, \h53}
  /\ LET operands == Read(file_data, pos + 1, 2)
     IN IF Len(operands) < 2
        THEN /\ Fail("IndexError")
             /\ i' = i + 1
             /\ pos' = FileSize(file_data)
             /\ UNCHANGED commands
        ELSE /\ commands' = Append(commands,
                  FMWrite(Opcode - \h52, operands[1], operands[2]))
             /\ i' = i + 1 + 2
             /\ pos' = pos + 3
             /\ UNCHANGED <<pc, raised>>
  /\ UNCHANGED <<dblock_data, dblock_sections, chunks, err_byte>>
  /\ ScanFrame

\* 0x4F (PSG stereo, port 0x06) and 0x50 (PSG write)
ScanPSGWrite ==
  /\ pc = "scan"
  /\ Opcode \in {\h4F, \h50}
  /\ LET operand == Read(file_data, pos + 1, 1)
     IN IF Len(operand) < 1
        THEN /\ Fail("IndexError")
             /\ i' = i + 1
             /\ pos' = FileSize(file_data)
             /\ UNCHANGED commands
        ELSE /\ commands' = Append(commands,
                  WriteCommand("SEGA_PSG", IF Opcode = \h4F THEN 6 ELSE -1,
                               -1, operand[1]))
             /\ i' = i + 1 + 1
             /\ pos' = pos + 2
             /\ UNCHANGED <<pc, raised>>
  /\ UNCHANGED <<dblock_data, dblock_sections, chunks, err_byte>>
  /\ ScanFrame

\* 0x61-0x63 and 0x70-0x7F: waits
ScanWait ==
  /\ pc = "scan"
  /\ Opcode \in \h61 .. \h63 \/ Opcode \in \h70 .. \h7F
  /\ i' = i + 1
  /\ IF Opcode = \h61
     THEN LET operand == Read(file_data, pos + 1, 2)
          IN IF Len(operand) < 2
             THEN /\ Fail("struct.error")
                  /\ pos' = FileSize(file_data)
                  /\ UNCHANGED commands
             ELSE /\ commands' = Append(commands, WaitCommand(UnpackH(operand)))
                  /\ pos' = pos + 3
                  /\ UNCHANGED <<pc, raised>>
     ELSE /\ commands' = Append(commands, WaitCommand(
               CASE Opcode = \h62 -> 735
                 [] Opcode = \h63 -> 882
                 [] OTHER -> Opcode - \h70 + 1))
          /\ pos' = pos + 1
          /\ UNCHANGED <<pc, raised>>
  /\ UNCHANGED <<dblock_data, dblock_sections, chunks, err_byte>>
  /\ ScanFrame

\* 0xE0: seek in the YM2612 data bank
ScanSeek ==
  /\ pc = "scan"
  /\ Opcode = \hE0
  /\ i' = i + 1
  /\ LET operand == Read(file_data, pos + 1, 4)
     IN IF Len(operand) < 4
        THEN /\ Fail("struct.error")
             /\ pos' = FileSize(file_data)
             /\ UNCHANGED commands
        ELSE /\ commands' = Append(commands,
                  YM2612DatabankSeekCommand(UnpackI(operand)))
             /\ pos' = pos + 5
             /\ UNCHANGED <<pc, raised>>
  /\ UNCHANGED <<dblock_data, dblock_sections, chunks, err_byte>>
  /\ ScanFrame

KnownOpcodes ==
  {\h66, \h67, \h68, \h52, \h53, \h4F, \h50, \hE0}
    \cup (\h90 .. \h95) \cup (\h80 .. \h8F) \cup (\h61 .. \h63) \cup (\h70 .. \h7F)

\* any other opcode
ScanUnknown ==
  /\ pc = "scan"
  /\ Opcode # -1
  /\ Opcode \notin KnownOpcodes
  /\ i' = i + 1
  /\ pos' = pos + 1
  /\ err_byte' = i + 1
  /\ Fail("VGMError: unknown command")
  /\ UNCHANGED <<commands, dblock_data, dblock_sections, chunks>>
  /\ ScanFrame

from_data ==
  \/ ReadHeader
  \/ ScanEof
  \/ ScanEnd
  \/ ScanDataBlock
  \/ ScanStub
  \/ ScanDatabankWrite
  \/ ScanYMWrite
  \/ ScanPSGWrite
  \/ ScanWait
  \/ ScanSeek
  \/ ScanUnknown

(***************************************************************************)
(* SpecDecode: VGM.from_data over the files whose stream is up to          *)
(* MaxStream opcodes drawn from StreamTokens, ended as StreamEnds says.    *)
(***************************************************************************)
\* a data block as it lies in the file
DataBlockBytes(type, payload) ==
  <<\h67, \h66, type>> \o <<Len(payload), 0, 0, 0>> \o payload

DataBlockTokens ==
  {DataBlockBytes(0, <<\hA1>>), DataBlockBytes(0, <<\hB1, \hB2>>),
   DataBlockBytes(1, <<\hC1>>), DataBlockBytes(0, <<>>)}

CommandTokens ==
  {<<\h52, \h28, \hF0>>, <<\h53, \h30, \h10>>, <<\h50, \h9F>>,
   <<\h61, \h34, \h12>>, <<\h62>>, <<\h71>>, <<\h83>>,
   <<\hE0, \h02, \h00, \h00, \h00>>}

FatalTokens == {<<\hFF>>, <<\h68>>, <<\h95>>}

StreamTokens == DataBlockTokens \cup CommandTokens \cup FatalTokens

\* the concatenations of up to n tokens
RECURSIVE Streams(_, _)
Streams(T, n) ==
  IF n = 0 THEN {<<>>}
  ELSE LET shorter == Streams(T, n - 1)
       IN shorter \cup {s \o t : s \in shorter, t \in T}

\* a file of a version with the stream where from_data looks for it
FileOf(version, data_offset, stream) ==
  [ident_ok |-> TRUE, version |-> version, data_offset |-> data_offset,
   clock_2c |-> 7670453, clock_30 |-> 0, clock_28 |-> 3579545,
   stream_at |-> \h34 + (IF version >= \h150 THEN data_offset ELSE \h0C),
   stream |-> stream]

Headers == {<<\h101, 0>>, <<\h150, \h0C>>, <<\h160, \h4C>>}

\* how a stream ends: with the terminator, at the end of the file with no
\* terminator, or with the terminator and a byte after it
StreamEnds == {<<\h66>>, <<>>, <<\h66, \h62>>}

\* the files whose stream is up to n tokens and an end
DecodeFiles(n) ==
  {FileOf(h[1], h[2], s \o e) :
     h \in Headers, s \in Streams(StreamTokens, n), e \in StreamEnds}
    \cup {[FileOf(\h150, \h0C, <<\h66>>) EXCEPT !.ident_ok = FALSE]}

InitRun ==
  /\ InitDecoder
  /\ commands = <<>>
  /\ pc = "header"
  /\ raised = "none"
  /\ files = <<>>
  /\ scenario = NoScenario
  /\ InitExtractor

InitDecode ==
  /\ file_data \in DecodeFiles(MaxStream)
  /\ args = [data_out |-> FALSE, fm_inst_out |-> FALSE]
  /\ InitRun

SpecDecode == InitDecode /\ [][from_data]_vars

(***************************************************************************)
(* mdfmvgmrip.py: main, from the decoded file to the outputs.  --midi-out  *)
(* is not asked for.                                                       *)
(***************************************************************************)
is_a_genesis_vgm(v) == v.psg_clock # 0 /\ v.ym_clock # 0

\* b[start:end] of Python
Slice(b, start, end) ==
  SubSeq(b, start + 1, IF end < Len(b) THEN end ELSE Len(b))

\* the stage of main after stage s
StageAfter(s, a) ==
  CASE s = "decoded" /\ a.data_out -> "data_out"
    [] s \in {"decoded", "data_out"} /\ a.fm_inst_out -> "extract"
    [] OTHER -> "done"

\* "if not vgm.is_a_genesis_vgm(): raise VGMError"
CheckGenesis ==
  /\ pc = "decoded"
  /\ IF is_a_genesis_vgm(vgm)
     THEN pc' = StageAfter("decoded", args) /\ UNCHANGED raised
     ELSE Fail("VGMError: not a Genesis VGM")
  /\ UNCHANGED <<decoderVars, commands, args, extractorVars, files, scenario>>

\* the files dump_datablocks writes: every section goes to DATABLK0.bin (i
\* is never advanced), as data[0x00][start : end + 1]; without type-0x00
\* data the first open has created the file when the KeyError is raised
DataBlockFiles(dbd, sections) ==
  IF sections = <<>> THEN <<>>
  ELSE IF 0 \notin DOMAIN dbd
       THEN <<[name |-> <<"DATABLK", 0>>, content |-> <<>>]>>
       ELSE [j \in 1..Len(sections) |->
               [name |-> <<"DATABLK", 0>>,
                content |-> Slice(dbd[0], sections[j].start, sections[j].end + 1)]]

\* "if args.data_out": dump_datablocks; a KeyError is caught and reported
DumpDatablocks ==
  /\ pc = "data_out"
  /\ files' = files \o DataBlockFiles(dblock_data, dblock_sections)
  /\ pc' = StageAfter("data_out", args)
  /\ UNCHANGED <<decoderVars, commands, args, raised, extractorVars, scenario>>

main ==
  \/ from_data
  \/ CheckGenesis
  \/ DumpDatablocks
  \/ ExtractStep
  \/ EndOfCommands

(***************************************************************************)
(* SpecMain: main over the files whose stream is up to MaxMainStream       *)
(* opcodes drawn from MainTokens, for every choice of outputs.             *)
(***************************************************************************)
MainTokens ==
  {DataBlockBytes(0, <<\hB1, \hB2>>), DataBlockBytes(1, <<\hC1>>),
   <<\h52, \h28, \hF0>>, <<\h52, \h73, \h05>>, <<\h52, \h30, \h10>>,
   <<\h50, \h9F>>, <<\h62>>, <<\h83>>, <<\hE0, \h02, \h00, \h00, \h00>>,
   <<\h68>>, <<\hFF>>}

MainFiles(n) ==
  {[FileOf(\h150, \h0C, s \o e) EXCEPT !.clock_28 = psg] :
     s \in Streams(MainTokens, n), e \in {<<\h66>>, <<>>},
     psg \in {0, 3579545}}

InitMain ==
  /\ file_data \in MainFiles(MaxMainStream)
  /\ args \in {a \in [data_out : BOOLEAN, fm_inst_out : BOOLEAN] :
                 a.data_out \/ a.fm_inst_out}
  /\ InitRun

SpecMain == InitMain /\ [][main]_vars

(***************************************************************************)
(* Properties of the state machine and the extractor, checked under Spec.  *)
(***************************************************************************)
\* the command a step of the loop processes
Stepped == k' = k + 1
StepCmd == commands'[k']

IsKeyWrite(cmd) == IsFMWrite(cmd) /\ cmd.register = \h28

\* the channel the low three bits of a key on/off value select
\* (000->0, 001->1, 010->2, 100->3, 101->4, 110->5)
KeyChannel(v) == IF v % 8 < 3 THEN v % 8 ELSE (v % 8) - 1

KeyEdge(was, on) == IF on = was THEN "n" ELSE IF on THEN "d" ELSE "u"

\* C3: a register-0x28 write selecting a mapped channel ch reports an edge for
\* ch iff (high nibble # 0) differs from ch's stored key_on (d when it becomes
\* on, u when it becomes off), stores the new key_on and reports n for the
\* five other channels; a write 0xF0|ch that reported d, followed by
\* 0x00|ch, reports u on ch and nothing else.
C3_KeyEdges ==
  [][(Stepped /\ IsKeyWrite(StepCmd) /\ StepCmd.value % 8 \in {0, 1, 2, 4, 5, 6}) =>
       LET v == StepCmd.value
           ch == KeyChannel(v)
           on == (v \div 16) # 0
       IN /\ raised' = "none"
          /\ result'.notes[ch] = KeyEdge(ym.channels[ch].key_on, on)
          /\ \A o \in Channels \ {ch} : result'.notes[o] = "n"
          /\ ym'.channels[ch].key_on = on
          /\ (/\ k >= 1
              /\ commands[k] = FMWrite(StepCmd.port, \h28, \hF0 + (v % 8))
              /\ result.notes[ch] = "d"
              /\ v \div 16 = 0)
             => result'.notes = [NoNotes EXCEPT ![ch] = "u"]]_vars

\* C3 witness: channel 2 was keyed on with 0xF2 (a down edge) and the
\* following write 0x02 has reported the up edge
C3_Witness ==
  /\ k >= 2
  /\ commands[k - 1] = FMWrite(0, \h28, \hF2)
  /\ commands[k] = FMWrite(0, \h28, \h02)
  /\ result.notes = [NoNotes EXCEPT ![2] = "u"]
  /\ ~ym.channels[2].key_on

\* the elapsed samples the commands of a sequence stand for
RECURSIVE ElapsedSamples(_)
ElapsedSamples(cmds) ==
  IF cmds = <<>> THEN 0
  ELSE LET cmd == Head(cmds)
       IN (IF cmd.kind \in {"Wait", "DatabankWrite"} THEN cmd.wait_time
           ELSE IF IsFMWrite(cmd) THEN 1 ELSE 0)
          + ElapsedSamples(Tail(cmds))

\* C4: after the extractor has processed a prefix of the command sequence its
\* elapsed-sample counter is the sum of the sample counts of the Wait and
\* DatabankWrite commands of the prefix plus 1 for each FM write; after
\* Wait(735), Wait(882), Wait(2) it is 1619.
C4_ElapsedSamples ==
  /\ pc # "failed" => samples = ElapsedSamples(SubSeq(commands, 1, k))
  /\ (k = 3 /\ commands = <<WaitCommand(735), WaitCommand(882), WaitCommand(2)>>)
       => samples = 1619

\* C6: with channel 3 special mode on, a write of v to register 0xA8 on port
\* 0 sets the low byte of the special frequency of operator index 1 of
\* channel index 2 to v and changes no channel's frequency field.
C6_SpecialFreqLsb ==
  [][(/\ Stepped
      /\ StepCmd = FMWrite(0, \hA8, StepCmd.value)
      /\ ym.channels[2].ch3_special_mode) =>
       /\ raised' = "none"
       /\ ym'.channels[2].operators[1].ch3_spmode_freq % 256 = StepCmd.value
       /\ \A ch \in Channels :
            ym'.channels[ch].frequency = ym.channels[ch].frequency]_vars

\* C6 witness: channel 2 has an ordinary frequency, special mode is on and
\* the 0xA8 write has set operator 1's special frequency
C6_Witness ==
  /\ k >= 1
  /\ commands[k] = FMWrite(0, \hA8, \h56)
  /\ ym.channels[2].ch3_special_mode
  /\ ym.channels[2].frequency = \h34
  /\ ym.channels[2].operators[1].ch3_spmode_freq = \h56

\* the snapshots the extractor can compare in this state: one of each
\* channel as it is now, and the catalog entries
Snapshots ==
  {from_channel(ym.channels[ch], ym.lfo_freq) : ch \in Channels}
    \cup {instruments[j] : j \in 1..Len(instruments)}

OperatorParameters ==
  {"detune", "multiplier", "level", "key_scaling", "attack", "delay",
   "sustain", "sust_lvl", "release", "ssg_eg", "amplitude_mod"}

InstrumentParameters ==
  {"algorithm", "op1_feedback", "pan", "ams", "fms", "lfo_freq"}

\* the (operator, field) places and instrument fields where a and b differ
Differences(a, b) ==
  {<<o, f>> \in Operators \X (OperatorParameters \cup
                               {"ch3_spmode_freq", "ch3_spmode_octave"}) :
     a.operators[o][f] # b.operators[o][f]}
    \cup {<<-1, f>> : f \in {g \in InstrumentParameters : a[g] # b[g]}}

\* C7: two snapshots are the same instrument iff the 11 operator fields
\* match for all 4 operators and algorithm, feedback, pan, ams, fms and
\* lfo_freq match; special frequency and octave take no part, and a
\* difference in one operator's detune alone makes them distinct.
C7_Equality ==
  \A a, b \in Snapshots :
    /\ InstrumentCompare(a, b) <=>
         /\ \A o \in Operators : \A f \in OperatorParameters :
              a.operators[o][f] = b.operators[o][f]
         /\ \A f \in InstrumentParameters : a[f] = b[f]
    /\ (\E o \in Operators : Differences(a, b) = {<<o, "detune">>})
         => ~InstrumentCompare(a, b)

\* C7 witness: two snapshots that differ in one operator's detune only, and
\* two that differ in a special frequency only
C7_Witness ==
  /\ \E a, b \in Snapshots : \E o \in Operators :
       Differences(a, b) = {<<o, "detune">>} /\ ~InstrumentCompare(a, b)
  /\ \E a, b \in Snapshots : \E o \in Operators :
       Differences(a, b) = {<<o, "ch3_spmode_freq">>} /\ InstrumentCompare(a, b)

\* C9: every channel index a step uses lies in 0..5 and every operator index
\* in 0..3.
C9_IndexBounds ==
  /\ result.chans \subseteq Channels
  /\ result.ops \subseteq Operators

\* C10: a register-0x28 write whose low 3 bits are 011 or 111 completes
\* without error, reports n for all six channels and leaves the chip state
\* unchanged.
C10_KeySentinel ==
  [][(Stepped /\ IsKeyWrite(StepCmd) /\ StepCmd.value % 8 \in {3, 7}) =>
       /\ raised' = "none"
       /\ result'.notes = NoNotes
       /\ ym' = ym]_vars

(***************************************************************************)
(* Properties checked under SpecNoteOn.                                    *)
(***************************************************************************)
OneEntryTwoUses ==
  /\ Len(instruments) = 1
  /\ Len(instruments[1].all_uses) = 2

\* C2 as stated: from the initial chip state, after the commands S,
\* key-on(ch), S, key-on(ch) the catalog holds exactly one entry and that
\* entry has exactly two usage records.
C2_TwoNoteOns ==
  (pc = "done" /\ ~scenario.key_off) => OneEntryTwoUses

\* C2 as amended: the second key-on only counts as a note-on when the key was
\* released in between.  After S, key-on(ch), key-off(ch), S, key-on(ch) the
\* catalog holds exactly one entry with exactly two usage records; without
\* the key-off the second write reports no edge and the one entry has one
\* usage record.
C2_TwoNoteOnsAmended ==
  pc = "done" =>
    /\ raised = "none"
    /\ Len(instruments) = 1
    /\ Len(instruments[1].all_uses) = (IF scenario.key_off THEN 2 ELSE 1)

\* C2 witness: a run with a setup sequence of two writes that changes the
\* keyed channel's parameters, a key-off in between, ended with one entry of
\* two usages
C2_Witness ==
  /\ pc = "done"
  /\ scenario.key_off
  /\ scenario.channel = 0
  /\ scenario.setup = <<FMWrite(0, \h30, \h22), FMWrite(0, \hB0, \h3A)>>
  /\ OneEntryTwoUses
  /\ instruments[1].operators[0].detune = 2
  /\ instruments[1].all_uses[2].at_command = 6

(***************************************************************************)
(* Properties of the decoder, checked under SpecDecode.                    *)
(***************************************************************************)
\* the concatenation of a sequence of byte strings
RECURSIVE Concat(_)
Concat(ss) == IF ss = <<>> THEN <<>> ELSE Head(ss) \o Concat(Tail(ss))

\* the chunks of type t, in file order, by their position in chunks
RECURSIVE ChunksOfType(_, _)
ChunksOfType(t, n) ==
  IF n = 0 THEN <<>>
  ELSE ChunksOfType(t, n - 1) \o (IF chunks[n].type = t THEN <<n>> ELSE <<>>)

SectionSlice(j) ==
  Slice(dblock_data[chunks[j].type], dblock_sections[j].start, dblock_sections[j].end)

\* C1: for every data-block type t the slices buffer_t[start:end) of the
\* sections recorded for the chunks of type t, concatenated in recorded
\* order, are the concatenated payloads of the type-t chunks in file order,
\* and each slice is its own chunk's payload.
C1_RoundTrip ==
  /\ Len(dblock_sections) = Len(chunks)
  /\ \A j \in 1..Len(chunks) : SectionSlice(j) = chunks[j].data
  /\ \A t \in DOMAIN dblock_data :
       LET js == ChunksOfType(t, Len(chunks))
       IN Concat([n \in 1..Len(js) |-> SectionSlice(js[n])])
            = Concat([n \in 1..Len(js) |-> chunks[js[n]].data])

\* C5: when the scan stops at a fatal opcode (unknown, 0x68, 0x90-0x95) the
\* decode error reports the absolute byte offset of that opcode, whatever
\* commands precede it.
C5_ErrorOffset ==
  raised \in {"VGMError: unknown command", "VGMError: unimplemented"}
    => err_byte = pos - 1

(***************************************************************************)
(* Properties of the run, checked under SpecMain.                          *)
(***************************************************************************)
DecodeError ==
  raised \in {"VGMError: unknown command", "VGMError: unimplemented",
              "VGMError: ident", "VGMError: not a Genesis VGM"}

ChipError == raised = "YM2612Error"

\* C8 as stated: if the decode or a state-machine step raises a fatal error
\* (decode error or chip error), the run has produced no output artifact.
C8_NoArtifactOnError ==
  (DecodeError \/ ChipError) => files = <<>>

\* C8 as amended: a decode error leaves no artifact at all; a chip error
\* leaves no instrument artifact, but the data-block artifacts asked for
\* were written before the state machine ran; nothing is written after
\* either error.
C8_NoArtifactOnErrorAmended ==
  /\ [](DecodeError => files = <<>>)
  /\ [](ChipError =>
          /\ \A n \in 1..Len(files) : files[n].name[1] = "DATABLK"
          /\ files = IF args.data_out
                     THEN DataBlockFiles(dblock_data, dblock_sections)
                     ELSE <<>>)
  /\ [][raised # "none" => files' = files]_vars

\* C8 witness: a chip error after the data-block artifacts were written
C8_Witness ==
  /\ ChipError
  /\ pc = "failed"
  /\ Len(files) = 1
  /\ files[1] = [name |-> <<"DATABLK", 0>>, content |-> <<\hB1, \hB2>>]
  /\ k >= 1
  /\ commands[k] = FMWrite(0, \h73, \h05)

(***************************************************************************)
(* Properties of the register writes, checked under SpecRegs.              *)
(***************************************************************************)
\* an FM write to an operator register (0x30-0x9F) whose low nibble names
\* no operator
IsUnmappedWrite(cmd) ==
  /\ cmd.kind = "Write" /\ cmd.chip = "YM2612"
  /\ cmd.register \in \h30 .. \h9F
  /\ cmd.register % 16 \in {3, 7, 11, 15}

\* C11: an operator-register write that resolves to no (channel, operator)
\* pair leaves the whole chip state unchanged; in 0x30-0x6F and 0x80-0x9F it
\* completes and reports no edge, in 0x70-0x7F it raises the fatal chip
\* error.
C11_UnmappedOperatorWrite ==
  [][(Stepped /\ IsUnmappedWrite(StepCmd)) =>
       /\ ym' = ym
       /\ instruments' = instruments
       /\ IF StepCmd.register \in \h70 .. \h7F
          THEN raised' = "YM2612Error" /\ pc' = "failed"
          ELSE raised' = "none" /\ pc' = pc /\ result'.notes = NoNotes]_vars

\* C11 witness: with operator 0 of channel 0 programmed, the write to 0x33
\* was ignored and the write to 0x73 has raised the chip error
C11_Witness ==
  /\ commands = <<FMWrite(0, \h30, \h22), FMWrite(0, \h33, \h15),
                  FMWrite(0, \h73, \h05)>>
  /\ k = 3
  /\ raised = "YM2612Error"
  /\ ym = [YM2612 EXCEPT !.channels[0].operators[0].detune = 2,
                         !.channels[0].operators[0].multiplier = 2]

\* a write that meets one of the two non-fatal conditions in chip state y
IsNonFatalCondition(y, cmd) ==
  /\ cmd.kind = "Write" /\ cmd.chip = "YM2612"
  /\ \/ cmd.register = \h2A /\ ~y.dac_enable
     \/ /\ cmd.register \in (\hA8 .. \hAA) \cup (\hAC .. \hAE)
        /\ ~y.channels[2].ch3_special_mode

\* C12: a write to 0x2A while the DAC is disabled, and a write to 0xA8-0xAA
\* or 0xAC-0xAE while channel 3 special mode is off, complete without error,
\* report no edge and leave every channel and operator field and the
\* instrument catalog as they were.
C12_NonFatalConditions ==
  [][(Stepped /\ IsNonFatalCondition(ym, StepCmd)) =>
       /\ raised' = "none"
       /\ pc' = pc
       /\ result'.notes = NoNotes
       /\ ym'.channels = ym.channels
       /\ instruments' = instruments]_vars

\* C12 witness: with one instrument in the catalog, the DAC write and the
\* special-mode frequency write were both made under their condition and
\* the run goes on with the catalog and the channels as they were
C12_Witness ==
  /\ commands = <<FMWrite(0, \h28, \hF0), FMWrite(0, \h2A, \h55),
                  FMWrite(0, \hA9, \h56)>>
  /\ k = 3
  /\ pc = "extract"
  /\ ~ym.dac_enable
  /\ ~ym.channels[2].ch3_special_mode
  /\ Len(instruments) = 1
  /\ ym.channels = [YM2612.channels EXCEPT ![0].key_on = TRUE]

\* the parameters of a catalog entry: everything but its usage records
SnapshotParameters(inst) ==
  [operators |-> inst.operators, algorithm |-> inst.algorithm,
   op1_feedback |-> inst.op1_feedback, pan |-> inst.pan, ams |-> inst.ams,
   fms |-> inst.fms, lfo_freq |-> inst.lfo_freq]

\* the parameters channel ch and the chip have in chip state y
ChannelParameters(y, ch) ==
  [operators |-> y.channels[ch].operators,
   algorithm |-> y.channels[ch].algorithm,
   op1_feedback |-> y.channels[ch].op1_feedback,
   pan |-> y.channels[ch].pan, ams |-> y.channels[ch].ams,
   fms |-> y.channels[ch].fms, lfo_freq |-> y.lfo_freq]

\* C13: the snapshot captured at a down edge on channel ch holds the values
\* ch's 4 operators, algorithm, feedback, pan, ams, fms and the chip's LFO
\* frequency have at that step (as a new entry, or merged into the first
\* entry with the same compared parameters), and no step changes the
\* parameters of a snapshot that is already in the catalog.
C13_SnapshotValues ==
  [][Stepped =>
       /\ Len(instruments') >= Len(instruments)
       /\ \A j \in 1..Len(instruments) :
            SnapshotParameters(instruments'[j]) = SnapshotParameters(instruments[j])
       /\ \A ch \in Channels :
            (raised' = "none" /\ result'.notes[ch] = "d") =>
              IF Len(instruments') > Len(instruments)
              THEN SnapshotParameters(instruments'[Len(instruments')])
                     = ChannelParameters(ym', ch)
              ELSE \E j \in 1..Len(instruments) :
                     /\ Len(instruments'[j].all_uses)
                          = Len(instruments[j].all_uses) + 1
                     /\ \A f \in InstrumentParameters :
                          instruments[j][f] = ChannelParameters(ym', ch)[f]
                     /\ \A o \in Operators : \A f \in OperatorParameters :
                          instruments[j].operators[o][f]
                            = ym'.channels[ch].operators[o][f]]_vars

\* C13 witness: channel 0 was keyed on with operator 0 programmed (0x30 =
\* 0x22) and its sustain was written afterwards: the snapshot keeps the
\* values of the key-on, the channel has the new one
C13_Witness ==
  /\ commands = <<FMWrite(0, \h30, \h22), FMWrite(0, \h28, \hF0),
                  FMWrite(0, \h70, \h05)>>
  /\ k = 3
  /\ Len(instruments) = 1
  /\ instruments[1].operators[0].detune = 2
  /\ instruments[1].operators[0].sustain = 0
  /\ ym.channels[0].operators[0].sustain = 5

(***************************************************************************)
(* Properties of the catalog, checked under Spec.                          *)
(***************************************************************************)
\* the catalog entries whose compared parameters are those of channel ch in
\* chip state y
EntriesEqualTo(insts, y, ch) ==
  {j \in 1..Len(insts) :
     /\ \A f \in InstrumentParameters : insts[j][f] = ChannelParameters(y, ch)[f]
     /\ \A o \in Operators : \A f \in OperatorParameters :
          insts[j].operators[o][f] = y.channels[ch].operators[o][f]}

\* the usage records of entry j are the same before and after the step,
\* except for grown new ones at the end
UsesGrownBy(j, grown) ==
  /\ Len(instruments'[j].all_uses) = Len(instruments[j].all_uses) + grown
  /\ SubSeq(instruments'[j].all_uses, 1, Len(instruments[j].all_uses))
       = instruments[j].all_uses

\* C14: the catalog is append-only and ordered by first occurrence.  No step
\* removes or reorders entries or removes or alters usage records; a down
\* edge whose snapshot equals an existing entry appends one usage to the
\* first such entry and adds no entry; a down edge whose snapshot equals no
\* entry appends one new entry with one usage at the end; a step without a
\* down edge leaves the catalog as it is.
C14_AppendOnly ==
  [][Stepped =>
       LET downs == {ch \in Channels :
                       raised' = "none" /\ result'.notes[ch] = "d"}
       IN /\ Len(instruments') >= Len(instruments)
          /\ \A j \in 1..Len(instruments) :
               /\ SnapshotParameters(instruments'[j])
                    = SnapshotParameters(instruments[j])
               /\ \E grown \in {0, 1} : UsesGrownBy(j, grown)
          /\ downs = {} => instruments' = instruments
          /\ \A ch \in downs :
               LET same == EntriesEqualTo(instruments, ym', ch)
               IN IF same = {}
                  THEN /\ Len(instruments') = Len(instruments) + 1
                       /\ Len(instruments'[Len(instruments')].all_uses) = 1
                       /\ \A j \in 1..Len(instruments) : UsesGrownBy(j, 0)
                  ELSE LET first == CHOOSE j \in same : \A h \in same : j <= h
                       IN /\ Len(instruments') = Len(instruments)
                          /\ UsesGrownBy(first, 1)
                          /\ \A j \in 1..Len(instruments) :
                               j # first => UsesGrownBy(j, 0)]_vars

\* C14 witness: channel 0 was keyed on with detune 1, then channel 2 with
\* the default parameters: two entries in the order of their first key-on,
\* one usage each
C14_Witness ==
  /\ commands = <<FMWrite(0, \h30, \h10), FMWrite(0, \h28, \hF0),
                  FMWrite(0, \h28, \hF2)>>
  /\ k = 3
  /\ Len(instruments) = 2
  /\ instruments[1].operators[0].detune = 1
  /\ instruments[2].operators[0].detune = 0
  /\ instruments[1].all_uses[1].at_command = 1
  /\ Len(instruments[1].all_uses) = 1
  /\ instruments[2].all_uses[1].at_command = 2

\* the number of Write commands to the YM2612 in a command sequence
RECURSIVE FMWriteCount(_)
FMWriteCount(cmds) ==
  IF cmds = <<>> THEN 0
  ELSE (IF Head(cmds).kind = "Write" /\ Head(cmds).chip = "YM2612" THEN 1 ELSE 0)
       + FMWriteCount(Tail(cmds))

\* C15: only Write commands to the FM chip change the chip state or the
\* catalog.  A Wait, DatabankWrite, DatabankSeek or PSG Write leaves every
\* chip field and the catalog unchanged and does not step the state
\* machine; every FM Write steps it once, with that command, in command
\* order (the count of steps is the count of FM Writes consumed).
C15_OnlyFMWrites ==
  /\ [][(Stepped /\ ~(StepCmd.kind = "Write" /\ StepCmd.chip = "YM2612")) =>
          /\ ym' = ym
          /\ instruments' = instruments
          /\ c' = c
          /\ raised' = raised]_vars
  /\ [][(Stepped /\ StepCmd.kind = "Write" /\ StepCmd.chip = "YM2612") =>
          /\ ym' = handle_write_command(ym, StepCmd).ym
          /\ raised' = "none" => c' = c + 1]_vars
  /\ [](pc # "failed" => c = FMWriteCount(SubSeq(commands, 1, k)))

\* C15 witness: a wait and a PSG write were passed over, then the key-on
\* was the first command handed to the state machine
C15_Witness ==
  /\ commands = <<WaitCommand(735), WriteCommand("SEGA_PSG", -1, -1, \h9F),
                  FMWrite(0, \h28, \hF0)>>
  /\ k = 3
  /\ c = 1
  /\ ym.channels[0].key_on
  /\ Len(instruments) = 1

(***************************************************************************)
(* The opcode table read as a reference decoder, for the properties        *)
(* checked under SpecDecode.                                               *)
(***************************************************************************)
\* what the table says of the opcode at the head of the bytes b: the bytes
\* it takes (0 when b holds no complete command of the table) and the
\* commands it emits
TableStep(b) ==
  LET op == b[1]
      none == [len |-> 0, commands |-> <<>>]
  IN CASE op \in {\h52, \h53} ->
            IF Len(b) < 3 THEN none
            ELSE [len |-> 3,
                  commands |-> <<WriteCommand("YM2612", op - \h52, b[2], b[3])>>]
       [] op = \h4F ->
            IF Len(b) < 2 THEN none
            ELSE [len |-> 2, commands |-> <<WriteCommand("SEGA_PSG", 6, -1, b[2])>>]
       [] op = \h50 ->
            IF Len(b) < 2 THEN none
            ELSE [len |-> 2, commands |-> <<WriteCommand("SEGA_PSG", -1, -1, b[2])>>]
       [] op = \h61 ->
            IF Len(b) < 3 THEN none
            ELSE [len |-> 3, commands |-> <<WaitCommand(b[2] + 256 * b[3])>>]
       [] op = \h62 -> [len |-> 1, commands |-> <<WaitCommand(735)>>]
       [] op = \h63 -> [len |-> 1, commands |-> <<WaitCommand(882)>>]
       [] op \in \h70 .. \h7F ->
            [len |-> 1, commands |-> <<WaitCommand(op - \h70 + 1)>>]
       [] op \in \h80 .. \h8F ->
            [len |-> 1, commands |-> <<YM2612DatabankWriteCommand(op - \h80)>>]
       [] op = \hE0 ->
            IF Len(b) < 5 THEN none
            ELSE [len |-> 5,
                  commands |-> <<YM2612DatabankSeekCommand(
                     b[2] + 256 * b[3] + 65536 * b[4] + 16777216 * b[5])>>]
       [] op = \h67 ->
            IF Len(b) < 7 THEN none
            ELSE LET size == b[4] + 256 * b[5] + 65536 * b[6] + 16777216 * b[7]
                 IN IF Len(b) < 7 + size THEN none
                    ELSE [len |-> 7 + size, commands |-> <<>>]
       [] OTHER -> none

\* the table applied to a whole stream: ok when the stream is complete
\* commands of the table up to a terminator 0x66, and the commands emitted
\* up to it
RECURSIVE TableDecode(_)
TableDecode(b) ==
  IF b = <<>> THEN [ok |-> FALSE, commands |-> <<>>]
  ELSE IF b[1] = \h66 THEN [ok |-> TRUE, commands |-> <<>>]
  ELSE LET step == TableStep(b)
       IN IF step.len = 0 THEN [ok |-> FALSE, commands |-> <<>>]
          ELSE LET rest == TableDecode(SubSeq(b, step.len + 1, Len(b)))
               IN [ok |-> rest.ok, commands |-> step.commands \o rest.commands]

\* C16: for a stream of complete table commands ended by the terminator
\* 0x66 the decoder emits one command per opcode other than 0x67, in stream
\* order, with the payload the table gives (0x52/0x53 FM Write with port =
\* opcode-0x52, 0x61 Wait(u16 LE), 0x62 Wait(735), 0x63 Wait(882),
\* 0x70-0x7F Wait(opcode-0x70+1), 0x80-0x8F DatabankWrite(opcode-0x80),
\* 0xE0 DatabankSeek(u32 LE)), none for 0x67, and decodes nothing after the
\* terminator.
C16_TableCommands ==
  LET expected == TableDecode(file_data.stream)
  IN (file_data.ident_ok /\ expected.ok /\ pc # "header") =>
       /\ pc \in {"scan", "decoded"}
       /\ raised = "none"
       /\ Len(commands) <= Len(expected.commands)
       /\ commands = SubSeq(expected.commands, 1, Len(commands))
       /\ pc = "decoded" => commands = expected.commands

\* C16 witness: a 16-bit wait, a port-1 FM write and a data block, then the
\* terminator with a wait opcode after it: two commands are decoded
C16_Witness ==
  /\ pc = "decoded"
  /\ file_data.stream = <<\h61, \h34, \h12>> \o <<\h53, \h30, \h10>>
                          \o DataBlockBytes(0, <<\hA1>>) \o <<\h66, \h62>>
  /\ commands = <<WaitCommand(4660), FMWrite(1, \h30, \h10)>>

\* C17: the scan of a file that starts with the identifier ends either with
\* the completed command sequence (terminator reached) or with a decode
\* error (VGMError); a stream that runs out of bytes before a terminator,
\* also inside a command's payload, ends with a decode error and no other
\* kind of failure.
C17_DecodeOutcome ==
  file_data.ident_ok =>
    /\ pc = "failed" =>
         raised \in {"VGMError: unimplemented", "VGMError: unknown command"}
    /\ pc # "failed" => raised = "none"

\* the byte length of the buffer of chunk j's type just before chunk j was
\* appended: the payloads of the earlier chunks of that type
RECURSIVE LengthBefore(_, _)
LengthBefore(j, n) ==
  IF n = 0 THEN 0
  ELSE LengthBefore(j, n - 1)
       + (IF n < j /\ chunks[n].type = chunks[j].type
          THEN Len(chunks[n].data) ELSE 0)

\* C19: the section recorded for a chunk of type t is the half-open range
\* of the chunk in the type-t buffer: start is the length of the type-t
\* buffer just before the chunk was appended, end = start + chunk size, so
\* 0 <= start <= end <= length of the type-t buffer and the sections of one
\* type are contiguous and do not overlap.
C19_SectionRanges ==
  /\ Len(dblock_sections) = Len(chunks)
  /\ \A j \in 1..Len(chunks) :
       LET s == dblock_sections[j]
       IN /\ s.start = LengthBefore(j, Len(chunks))
          /\ s.end = s.start + Len(chunks[j].data)
          /\ 0 <= s.start /\ s.start <= s.end
          /\ s.end <= Len(dblock_data[chunks[j].type])

(***************************************************************************)
(* Properties of the usage records, checked under Spec.                    *)
(***************************************************************************)
\* C18: the commandIndex (at_command) of every usage record is the position
\* in the full command sequence, Wait, DatabankWrite, DatabankSeek and PSG
\* Write commands counted, of the FM write that produced the down edge: the
\* command at that position is a processed key-on write with the usage's
\* key bits.
C18_CommandIndex ==
  \A j \in 1..Len(instruments) : \A n \in 1..Len(instruments[j].all_uses) :
    LET use == instruments[j].all_uses[n]
    IN /\ use.at_command \in 0 .. k - 1
       /\ IsKeyWrite(commands[use.at_command + 1])
       /\ commands[use.at_command + 1].value \div 16 # 0
       /\ KeyOnOps(commands[use.at_command + 1]) = use.key_on_ops

(***************************************************************************)
(* Properties of the frequency registers, checked under SpecRegs.          *)
(***************************************************************************)
\* C20: with special mode off, a write of v to 0xA4-0xA6 (channel =
\* r-0xA4+3p) sets the high byte of the channel's frequency to v's low three
\* bits and the octave to bits 3-5, and leaves the low byte unchanged (after
\* a low-byte write L the low 8 bits still equal L); a write to 0xA0-0xA2
\* sets the low byte and does not change the high byte.
C20_FrequencyHighByte ==
  [][(/\ Stepped
      /\ StepCmd.kind = "Write" /\ StepCmd.chip = "YM2612"
      /\ StepCmd.register \in (\hA0 .. \hA2) \cup (\hA4 .. \hA6)
      /\ ~ym.channels[2].ch3_special_mode) =>
       LET high == StepCmd.register >= \hA4
           ch == StepCmd.register - (IF high THEN \hA4 ELSE \hA0)
                   + 3 * StepCmd.port
           v == StepCmd.value
       IN /\ raised' = "none"
          /\ IF high
             THEN /\ ym'.channels[ch].frequency % 256
                       = ym.channels[ch].frequency % 256
                  /\ ym'.channels[ch].frequency \div 256 = v % 8
                  /\ ym'.channels[ch].octave = (v \div 8) % 8
             ELSE /\ ym'.channels[ch].frequency % 256 = v
                  /\ ym'.channels[ch].frequency \div 256
                       = ym.channels[ch].frequency \div 256]_vars

(***************************************************************************)
(* Properties of the channel and operator registers, checked under         *)
(* SpecNoteOn.                                                             *)
(***************************************************************************)
\* C21: a write of v to register 0xB4-0xB6 on port p sets, on channel
\* (r-0xB4)+3p only, pan = bits 6-7 of v, ams = bits 3-5 of v and fms =
\* bits 0-1 of v (v & 0x03); every other channel is unchanged.
C21_StereoLfoSensitivity ==
  [][(/\ Stepped
      /\ StepCmd.kind = "Write" /\ StepCmd.chip = "YM2612"
      /\ StepCmd.register \in \hB4 .. \hB6) =>
       LET ch == StepCmd.register - \hB4 + 3 * StepCmd.port
           v == StepCmd.value
       IN /\ raised' = "none"
          /\ ym'.channels[ch].pan = (v \div 64) % 4
          /\ ym'.channels[ch].ams = (v \div 8) % 8
          /\ ym'.channels[ch].fms = v % 4
          /\ \A o \in Channels \ {ch} : ym'.channels[o] = ym.channels[o]]_vars

\* the operator fields the 0x10-range of an operator register selects
SelectedFields(reg) ==
  CASE reg \in \h30 .. \h3F -> {"detune", "multiplier"}
    [] reg \in \h40 .. \h4F -> {"level"}
    [] reg \in \h50 .. \h5F -> {"key_scaling", "attack"}
    [] reg \in \h60 .. \h6F -> {"amplitude_mod", "delay"}
    [] reg \in \h70 .. \h7F -> {"sustain"}
    [] reg \in \h80 .. \h8F -> {"sust_lvl", "release"}
    [] reg \in \h90 .. \h9F -> {"ssg_eg"}

\* the channel fields an operator write must leave alone
ChannelFields ==
  {"ch3_special_mode", "frequency", "octave", "algorithm", "op1_feedback",
   "pan", "ams", "fms", "key_on"}

\* C22: an operator-register write (0x30-0x9F, port p) whose low nibble n is
\* one of the 12 mapped values changes only the fields its 0x10-range
\* selects, of operator n div 4 of channel (n mod 4) + 3p; every other field
\* of that operator, every other operator, every other channel, all key_on
\* flags and the chip-global fields are unchanged and no edge is reported.
C22_OperatorWriteFrame ==
  [][(/\ Stepped
      /\ StepCmd.kind = "Write" /\ StepCmd.chip = "YM2612"
      /\ StepCmd.register \in \h30 .. \h9F
      /\ StepCmd.register % 16 \notin {3, 7, 11, 15}) =>
       LET n == StepCmd.register % 16
           channel == (n % 4) + 3 * StepCmd.port
           operator == n \div 4
       IN /\ raised' = "none"
          /\ result'.notes = NoNotes
          /\ instruments' = instruments
          /\ ym'.lfo_freq = ym.lfo_freq
          /\ ym'.dac_enable = ym.dac_enable
          /\ ym'.dac = ym.dac
          /\ \A ch \in Channels :
               /\ \A f \in ChannelFields :
                    ym'.channels[ch][f] = ym.channels[ch][f]
               /\ \A o \in Operators :
                    \A f \in DOMAIN YM2612Operator :
                      (ch = channel /\ o = operator
                         /\ f \in SelectedFields(StepCmd.register))
                      \/ ym'.channels[ch].operators[o][f]
                           = ym.channels[ch].operators[o][f]]_vars

\* C22 witness: the writes 0x52 = 0x1F on port 1 and 0x9C = 0x0F on port 0
\* have set the attack of operator 0 of channel 5 and the SSG-EG of operator
\* 3 of channel 0, and nothing else
C22_Witness ==
  /\ scenario.setup = <<FMWrite(1, \h52, \h1F), FMWrite(0, \h9C, \h0F)>>
  /\ k = 2
  /\ ym = [YM2612 EXCEPT !.channels[5].operators[0].attack = 31,
                         !.channels[0].operators[3].ssg_eg = 15]

(***************************************************************************)
(* Properties of the usage records and the key edges, checked under Spec.  *)
(***************************************************************************)
\* bits 7, 6, 5, 4 of v
HighNibbleBits(v) ==
  <<(v \div 128) % 2 = 1, (v \div 64) % 2 = 1, (v \div 32) % 2 = 1,
    (v \div 16) % 2 = 1>>

\* C23: every usage record created by a register-0x28 write of v carries as
\* key bits the four booleans (bit 7, bit 6, bit 5, bit 4 of v), whether it
\* opens a new catalog entry or is merged into an existing one; no usage
\* record has absent key bits and every usage has at least one key bit true.
C23_KeyBits ==
  /\ [](\A j \in 1..Len(instruments) :
          \A n \in 1..Len(instruments[j].all_uses) :
            LET bits == instruments[j].all_uses[n].key_on_ops
            IN Len(bits) = 4 /\ \E b \in 1..4 : bits[b])
  /\ [][(Stepped /\ StepCmd.kind = "Write" /\ StepCmd.chip = "YM2612"
           /\ StepCmd.register = \h28) =>
          \A j \in 1..Len(instruments') :
            LET uses == instruments'[j].all_uses
                before == IF j <= Len(instruments)
                          THEN Len(instruments[j].all_uses) ELSE 0
            IN \A n \in before + 1 .. Len(uses) :
                 uses[n].key_on_ops = HighNibbleBits(StepCmd.value)]_vars

\* C23 witness: channel 0 keyed on with 0x10, released, keyed on with 0xF0:
\* one entry, the usage that opened it with key bits 0001 and the merged one
\* with key bits 1111
C23_Witness ==
  /\ commands = <<FMWrite(0, \h28, \h10), FMWrite(0, \h28, \h00),
                  FMWrite(0, \h28, \hF0)>>
  /\ k = 3
  /\ Len(instruments) = 1
  /\ Len(instruments[1].all_uses) = 2
  /\ instruments[1].all_uses[1].key_on_ops = <<FALSE, FALSE, FALSE, TRUE>>
  /\ instruments[1].all_uses[2].key_on_ops = <<TRUE, TRUE, TRUE, TRUE>>

(***************************************************************************)
(* Where the command stream scan starts, checked under SpecDecode.         *)
(***************************************************************************)
\* the u32 LE that lies at absolute offset 0x34 of the file
OffsetField(f) ==
  UnpackI(<<ByteAt(f, \h34), ByteAt(f, \h35), ByteAt(f, \h36), ByteAt(f, \h37)>>)

\* the header has just been read and the scan is about to start
HeaderRead == pc = "header" /\ pc' = "scan"

\* C24 (as stated): the command stream scan starts at absolute byte offset
\* 0x34 + (u32 LE at 0x34) when the header version is >= 0x00000150, and at
\* the fixed absolute byte offset 0x0C when the version is below 0x00000150.
C24_StreamStart ==
  [][HeaderRead =>
       pos' = IF file_data.version >= \h150
              THEN \h34 + OffsetField(file_data) ELSE \h0C]_vars

\* C24 (amended): the command stream scan starts at absolute byte offset
\* 0x34 + (u32 LE at 0x34) when the header version is >= 0x00000150, and at
\* the fixed absolute byte offset 0x40 (0x34 + 0x0C) when the version is
\* below 0x00000150; the first opcode decoded is the byte at that offset.
C24_StreamStartAmended ==
  [][HeaderRead =>
       /\ pos' = IF file_data.version >= \h150
                 THEN \h34 + OffsetField(file_data) ELSE \h40
       /\ i' = pos' - 1]_vars

\* C24 witness: a version 1.01 file whose offset field is 0 and whose FM
\* write at 0x40 has been decoded as the first command
C24_Witness ==
  /\ file_data.version = \h101
  /\ OffsetField(file_data) = 0
  /\ pc = "scan"
  /\ Read(file_data, \h40, 3) = <<\h52, \h28, \hF0>>
  /\ pos = \h43
  /\ commands = <<FMWrite(0, \h28, \hF0)>>

\* the number of usage records over the first n entries of the catalog
RECURSIVE UsesUpTo(_, _)
UsesUpTo(insts, n) ==
  IF n = 0 THEN 0 ELSE UsesUpTo(insts, n - 1) + Len(insts[n].all_uses)

TotalUses(insts) == UsesUpTo(insts, Len(insts))

\* the number of channels for which a result reports a down edge
DownEdges(r) == Cardinality({ch \in Channels : r.notes[ch] = "d"})

\* C25: after any sequence of FM writes, no two catalog entries are equal
\* under the equality rule, the total number of usage records over all
\* entries equals the number of down edges reported so far (none at the
\* start, and each processed write adds as many usages as it reports down
\* edges), and within each entry the usage records are in strictly
\* increasing command index order.
C25_CatalogShape ==
  /\ [](\A a, b \in 1..Len(instruments) :
          a # b => ~InstrumentCompare(instruments[a], instruments[b]))
  /\ [](\A j \in 1..Len(instruments) :
          \A m, n \in 1..Len(instruments[j].all_uses) :
            m < n => instruments[j].all_uses[m].at_command
                       < instruments[j].all_uses[n].at_command)
  /\ [](k = 0 => TotalUses(instruments) = 0)
  /\ [][Stepped =>
          TotalUses(instruments') =
            TotalUses(instruments)
              + (IF result'.raised = "none" THEN DownEdges(result') ELSE 0)]_vars

\* C25 witness: channel 0 keyed on, released and keyed on again with the
\* same parameters: two down edges, one entry, its two usages at command
\* indices 0 and 2
C25_Witness ==
  /\ commands = <<FMWrite(0, \h28, \hF0), FMWrite(0, \h28, \h00),
                  FMWrite(0, \h28, \h10)>>
  /\ k = 3
  /\ Len(instruments) = 1
  /\ Len(instruments[1].all_uses) = 2
  /\ instruments[1].all_uses[1].at_command = 0
  /\ instruments[1].all_uses[2].at_command = 2
  /\ DownEdges(result) = 1

\* the channels for which the result of a step reports an edge
EdgeChannels(r) == {ch \in Channels : r.notes[ch] # "n"}

\* C26: over any sequence of FM writes each step reports an edge for at most
\* one channel, and for every channel the reported edges alternate down, up,
\* down, ... starting with down: every channel starts off, a down edge is
\* reported only for a channel that was off and leaves it on, an up edge only
\* for a channel that was on and leaves it off, and a step that reports no
\* edge for a channel leaves its stored key_on as it was.  So a key-on write
\* to a channel that is already on, whatever its operator mask, reports no
\* edge and captures no snapshot.
C26_EdgesAlternate ==
  /\ [](k = 0 => \A ch \in Channels : ~ym.channels[ch].key_on)
  /\ [][Stepped =>
          /\ Cardinality(EdgeChannels(result')) <= 1
          /\ \A ch \in Channels :
               LET was == ym.channels[ch].key_on
                   now == ym'.channels[ch].key_on
               IN CASE result'.notes[ch] = "d" -> ~was /\ now
                    [] result'.notes[ch] = "u" -> was /\ ~now
                    [] OTHER -> now = was
          /\ (/\ IsKeyWrite(StepCmd)
              /\ StepCmd.value \div 16 # 0
              /\ KeyChannel(StepCmd.value) \in Channels
              /\ ym.channels[KeyChannel(StepCmd.value)].key_on) =>
               (result'.notes = NoNotes /\ instruments' = instruments)]_vars

\* C26 witness: channel 0 keyed on with all four operators, then keyed on
\* again with operator mask 0001 while still on: the second write reports no
\* edge and the catalog still holds the one usage of the first
C26_Witness ==
  /\ k = 2
  /\ commands[1] = FMWrite(0, \h28, \hF0)
  /\ commands[2] = FMWrite(0, \h28, \h10)
  /\ result.notes = NoNotes
  /\ ym.channels[0].key_on
  /\ Len(instruments) = 1
  /\ Len(instruments[1].all_uses) = 1

(***************************************************************************)
(* Catalog entries against what is written out for them, checked under     *)
(* SpecRegs.                                                               *)
(***************************************************************************)
\* the reported parameters of an instrument: its serialized form without the
\* special-mode frequency and octave of the operators and without the usage
\* metadata
ReportedOperator(o) ==
  [OperatorSerialize(o) EXCEPT !.freq = 0, !.octave = 0]

ReportedParameters(inst) ==
  [InstrumentSerialize(inst) EXCEPT
     !.operators = [o \in Operators |-> ReportedOperator(inst.operators[o])],
     !.metadata = <<>>]

\* C27: any two distinct catalog entries differ in at least one reported
\* (serialized) instrument parameter other than the special-mode
\* frequency/octave and the usage metadata: an operator never written in
\* 0x80-0x8F and one written there with value 0x00 are the same instrument.
C27_DistinctReports ==
  \A a, b \in 1..Len(instruments) :
    a # b => ReportedParameters(instruments[a])
               # ReportedParameters(instruments[b])

====
